---- MODULE Spec2Model ----
(***************************************************************************)
(* A model of the sandbox lifecycle manager of heidi-dang/autocoder        *)
(* (src/server/services/sandbox_manager.py) and of the HTTP router in      *)
(* front of it (src/server/routers/sandbox.py).                            *)
(*                                                                         *)
(* The manager runs on one asyncio event loop.  A coroutine runs           *)
(* atomically from one suspension point to the next; the suspension points *)
(* are the acquisition of the manager lock and every awaited docker        *)
(* command.  Each action below is one such atomic stretch of one call.     *)
(* Calls are anonymous: `inflight` is the bag of the calls that are        *)
(* suspended in a docker command.  A call that waits for the lock has done *)
(* nothing yet and is not told apart from a call that has not been made;   *)
(* only LiveSpec keeps the calls that wait, in the FIFO queue `waiters` of *)
(* asyncio.Lock, to follow each of them to its return.                     *)
(*                                                                         *)
(* Of a SandboxInfo the model keeps sandbox_id (the key), container_id and *)
(* status; project_name, created_at, workspace_path, ports and             *)
(* resource_limits are set once by create_sandbox and copied through.      *)
(* created_at enters only through the age cleanup_stopped_sandboxes        *)
(* computes from it (CleanupSpec).                                         *)
(*                                                                         *)
(* KillSpec models kill_process_tree of src/server/utils/process_utils.py, *)
(* a blocking function of its own: one action per call it makes to psutil  *)
(* or to the Popen handle, the answer of the operating system being the    *)
(* action's argument.                                                      *)
(*                                                                         *)
(* AuthSpec models the session endpoints of src/server/routers/auth.py     *)
(* (/auth/me, /auth/refresh, /auth/logout and the OAuth callbacks).  The   *)
(* handlers await nothing between their first and last statement, so each  *)
(* request is one action.  The database answers every statement, but for   *)
(* the UNIQUE constraint on token_hash and for the revocation of logout,   *)
(* whose failure logout catches.                                           *)
(*                                                                         *)
(* AgentSpec models the loop of run_autonomous_agent of src/agent.py: one  *)
(* action for the call, one for the top of the loop up to the start of a   *)
(* session, one for the end of a session and what the loop decides then.   *)
(***************************************************************************)
EXTENDS Integers, FiniteSets, Sequences, Bags, TLC

\* ------------------------------------------------------------- bounds
MaxInFlight == 2
NumContainers == 2
\* the oldest record, and the largest older_than_hours, in hours
MaxAge == 1
\* the most sessions one call of run_autonomous_agent is followed through
MaxSessions == 3
\* max_iterations is drawn from None and -1..MaxIterations
MaxIterations == 2
\* the most descendants a snapshot holds
MaxChildren == 2
\* the values secrets.token_urlsafe(16) is drawn from, 1..MaxJti
MaxJti == 2

\* uuid4().hex[:8] has 16^8 values; the model draws from two of them
Ids == {1, 2}
\* the container ids `docker run -d` can print
ContainerIds == 1..NumContainers

\* ---------------------------------------------------- program constants
\* container_id=""
EmptyContainerId == 0
\* no sandbox id
NoId == 0

VARIABLES
    sandboxes,       \* self.sandboxes: sandbox_id -> SandboxInfo (Absent when not a key)
    lock,            \* self._lock.locked()
    inflight,        \* the calls suspended in a docker command
    last,            \* the call that returned (or raised) in the latest step, if one did
    everRegistered,  \* history: the ids under which a record was ever registered
    age,             \* (datetime.now() - info.created_at) in hours, per record
    cleaner,         \* the call of cleanup_stopped_sandboxes: its locals and position
    held,            \* a SandboxInfo a caller got from the manager and kept
    kill,            \* a call of kill_process_tree: its position, locals and result
    auth,            \* the users and refresh_tokens tables and the latest HTTP answer
    waiters,         \* self._lock._waiters: the calls suspended in `async with self._lock`
    agent            \* a call of run_autonomous_agent: its arguments, locals and position

vars ==
    <<sandboxes, lock, inflight, last, everRegistered, age, cleaner, held, kill, auth,
      waiters, agent>>

\* ------------------------------------------------------------ records
Absent == [container_id |-> EmptyContainerId, status |-> "absent"]

SandboxInfo(c, st) == [container_id |-> c, status |-> st]

Registered(s) == sandboxes[s].status # "absent"

EmptyRegistry == [s \in Ids |-> Absent]

\* A suspended call: the docker command it awaits (pc), the sandbox id, the
\* container id it put on the command line, the status it read from the
\* registry, its remove_volume argument, and the docker commands it has issued.
Call(pc, s, c, pre, rv, n) ==
    [pc |-> pc, sid |-> s, container_id |-> c, pre |-> pre, remove_volume |-> rv, ncmd |-> n]

\* The record of a finished call: the operation, its argument, the status the
\* sandbox had when the call looked it up, what the runtime answered, what the
\* caller got, how many docker commands the call issued, and (repeats) the
\* status the call before it found when that was the same operation on the
\* same id and returned in the step before this call was made.
Returned(op, s, pre, rt, ret, info, rc, lst, n, rep) ==
    [op |-> op, sid |-> s, pre |-> pre, rt |-> rt, ret |-> ret,
     info |-> info, rc |-> rc, lst |-> lst, ncmd |-> n, repeats |-> rep]

NoCall == Returned("none", NoId, "none", "none", "none", Absent, 0, EmptyRegistry, 0, "none")

\* cleanup_stopped_sandboxes before it is called: to_remove, count, the
\* number i of destroy_sandbox calls it has made, and (removed) the number of
\* registry entries those calls deleted.
IdleCleaner ==
    [pc |-> "idle", h |-> 0, to_remove |-> <<>>, i |-> 0, count |-> 0, removed |-> 0]

\* A caller that keeps no SandboxInfo.  Of a kept one: the key it was
\* returned for, whether the object is still the one the registry holds under
\* that key, its fields when it was returned and now, and whether the caller
\* has assigned to it.
NoHeld ==
    [sid |-> NoId, linked |-> FALSE, returned |-> Absent, current |-> Absent,
     written |-> FALSE]

\* proc.pid
Pids == {1, 2}

\* KillResult(status=st, parent_pid=pid) with the defaults of the dataclass
KillResult(st, pid) ==
    [status |-> st, parent_pid |-> pid, children_found |-> 0,
     children_terminated |-> 0, children_killed |-> 0, parent_forcekilled |-> FALSE]

\* A call of kill_process_tree(proc) at position pc.  root says whether the
\* process of proc had exited when the call was made.  n is len(children), j
\* the child the running loop has reached, gone the first list wait_procs
\* returned.  History: path (normal or fallback), term and killed (the
\* children a terminate and a kill were delivered to), and what became of
\* proc.terminate() and proc.kill() (none, sent, raised).
KillCall(pc, pid, root) ==
    [pc |-> pc, pid |-> pid, root |-> root, path |-> "none", n |-> 0, j |-> 0,
     term |-> {}, gone |-> {}, killed |-> {}, root_term |-> "none",
     root_exited |-> FALSE, root_kill |-> "none", result |-> KillResult("success", pid)]

NoKill == KillCall("idle", 1, "alive")

\* users.id
UserIds == {1, 2}

\* A cookie value: a JWT with its sub, type and jti claims and whether its
\* signature verifies under JWT_SECRET_KEY.  Access tokens carry no jti.
Token(sub, type, jti, signed) == [sub |-> sub, type |-> type, jti |-> jti, signed |-> signed]

\* request.cookies.get(...) is None
NoToken == Token(0, "none", 0, FALSE)

\* An HTTP answer: the endpoint, the status code, the cookie that was
\* presented and whether it was unexpired, the user returned, the cookies
\* set, and whether both cookies were deleted.
Response(op, status, token, fresh, revoked, user, access, refresh, cleared) ==
    [op |-> op, status |-> status, token |-> token, fresh |-> fresh, revoked |-> revoked,
     user |-> user, set_access |-> access, set_refresh |-> refresh, cleared |-> cleared]

NoResponse == Response("none", 0, NoToken, FALSE, FALSE, 0, NoToken, NoToken, FALSE)

\* The tables users and refresh_tokens (rows: token_hash, user_id, revoked)
\* and the latest answer.
AuthState(users, rows) ==
    [users |-> users, refresh_tokens |-> rows, resp |-> NoResponse]

NoAuth == AuthState({}, {})

\* No call waits for the lock.
NoWaiters == <<>>

\* An Optional argument: None, or Some(v)
None == {}

Some(v) == {v}

\* run_autonomous_agent: max_iterations, feature_id, agent_type (after the
\* auto-detection), iteration, the number of sessions run, and status and
\* response of the latest session (complete: the response says that all
\* features are passing or that there is no more work to do).
AgentCall(pc, max_iterations, feature_id, agent_type) ==
    [pc |-> pc, max_iterations |-> max_iterations, feature_id |-> feature_id,
     agent_type |-> agent_type, iteration |-> 0, sessions |-> 0,
     status |-> "none", phrase |-> FALSE, complete |-> FALSE]

NoAgent == AgentCall("idle", None, None, "coding")

Init ==
    /\ sandboxes = EmptyRegistry
    /\ lock = FALSE
    /\ inflight = EmptyBag
    /\ last = NoCall
    /\ everRegistered = {}
    /\ age = [s \in Ids |-> 0]
    /\ cleaner = IdleCleaner
    /\ held = NoHeld
    /\ kill = NoKill
    /\ auth = NoAuth
    /\ waiters = NoWaiters
    /\ agent = NoAgent

Suspended == BagToSet(inflight)

\* Mutant of LockFree: the operation body is entered without the lock.
LockIgnored == TRUE

\* async with self._lock: entered only while no coroutine holds the lock.
LockFree == ~lock

\* _run_command from a call that was not suspended before: spawn the docker
\* process and suspend until it exits.
RunCommand(pc, s, c, pre, rv) ==
    /\ BagCardinality(inflight) < MaxInFlight
    /\ inflight' = inflight (+) SetToBag({Call(pc, s, c, pre, rv, 1)})
    /\ last' = NoCall

\* _run_command from call k, resumed after its previous docker command.
RunNextCommand(k, pc) ==
    /\ inflight' = (inflight (-) SetToBag({k}))
                       (+) SetToBag({Call(pc, k.sid, k.container_id, k.pre,
                                          k.remove_volume, k.ncmd + 1)})
    /\ last' = NoCall

\* A call that never suspended returns (or raises).
ReturnAtOnce(op, s, pre, ret, info, lst) ==
    /\ last' = Returned(op, s, pre, "none", ret, info, 0, lst, 0,
                         IF last.op = op /\ last.sid = s THEN last.pre ELSE "none")
    /\ UNCHANGED inflight

\* The suspended call k returns (or raises).
Return(k, op, rt, ret, info, rc) ==
    /\ inflight' = inflight (-) SetToBag({k})
    /\ last' = Returned(op, k.sid, k.pre, rt, ret, info, rc, EmptyRegistry, k.ncmd, "none")

\* ------------------------------------------------------ create_sandbox
\* Lines 64-75: take the lock, draw the sandbox id s, name the container and
\* the volume, issue `docker volume create` and suspend.
CreateSandbox(s) ==
    /\ LockFree
    /\ lock' = TRUE
    /\ RunCommand("create_volume", s, EmptyContainerId, "none", FALSE)
    /\ UNCHANGED <<sandboxes, everRegistered>>

\* Mutant of CreateVolumeFailed: an Error record is registered before the raise.
CreateVolumeFailedRegisters(k) ==
    /\ k.pc = "create_volume"
    /\ sandboxes' = [sandboxes EXCEPT ![k.sid] = SandboxInfo(EmptyContainerId, "error")]
    /\ everRegistered' = everRegistered \cup {k.sid}
    /\ Return(k, "create", "volume_failed", "RuntimeError", Absent, 0)
    /\ lock' = FALSE

\* Mutant of CreateVolumeFailed: the RuntimeError leaves the lock held.
CreateVolumeFailedKeepsLock(k) ==
    /\ k.pc = "create_volume"
    /\ Return(k, "create", "volume_failed", "RuntimeError", Absent, 0)
    /\ UNCHANGED <<lock, sandboxes, everRegistered>>

\* Lines 76-78: the volume could not be created; RuntimeError, lock released.
CreateVolumeFailed(k) ==
    /\ k.pc = "create_volume"
    /\ Return(k, "create", "volume_failed", "RuntimeError", Absent, 0)
    /\ lock' = FALSE
    /\ UNCHANGED <<sandboxes, everRegistered>>

\* Lines 80-128: the volume exists; build the command line and the info object
\* (status "creating", container_id ""), issue `docker run -d` and suspend.
CreateVolumeDone(k) ==
    /\ k.pc = "create_volume"
    /\ RunNextCommand(k, "create_run")
    /\ UNCHANGED <<sandboxes, lock, everRegistered>>

\* Lines 129-136: docker printed the container id c.
CreateRunDone(k, c) ==
    /\ k.pc = "create_run"
    /\ sandboxes' = [sandboxes EXCEPT ![k.sid] = SandboxInfo(c, "running")]
    /\ everRegistered' = everRegistered \cup {k.sid}
    /\ Return(k, "create", "ok", "info", SandboxInfo(c, "running"), 0)
    /\ lock' = FALSE

\* Lines 138-142: docker run failed.
CreateRunFailed(k) ==
    /\ k.pc = "create_run"
    /\ sandboxes' = [sandboxes EXCEPT ![k.sid] = SandboxInfo(EmptyContainerId, "error")]
    /\ everRegistered' = everRegistered \cup {k.sid}
    /\ Return(k, "create", "run_failed", "RuntimeError", Absent, 0)
    /\ lock' = FALSE

\* ------------------------------------------------- get / list_sandboxes
\* Lines 144-146.
GetSandbox(s) ==
    /\ ReturnAtOnce("get", s, sandboxes[s].status,
                    IF Registered(s) THEN "info" ELSE "None", sandboxes[s], EmptyRegistry)
    /\ UNCHANGED <<sandboxes, lock, everRegistered>>

\* Lines 158-160, called without a project filter.
ListSandboxes ==
    /\ ReturnAtOnce("list", NoId, "none", "list", Absent, sandboxes)
    /\ UNCHANGED <<sandboxes, lock, everRegistered>>

\* -------------------------------------------------------- stop_sandbox
\* Lines 172-182.
StopSandbox(s) ==
    /\ LockFree
    /\ IF ~Registered(s)
       THEN /\ ReturnAtOnce("stop", s, "absent", "False", Absent, EmptyRegistry)
            /\ UNCHANGED lock
       ELSE IF sandboxes[s].status = "stopped"
       THEN /\ ReturnAtOnce("stop", s, "stopped", "True", Absent, EmptyRegistry)
            /\ UNCHANGED lock
       ELSE /\ lock' = TRUE
            /\ RunCommand("stop_wait", s, sandboxes[s].container_id,
                          sandboxes[s].status, FALSE)
    /\ UNCHANGED <<sandboxes, everRegistered>>

\* Mutant of StopDone: success is reported without recording the new status.
StopDoneKeepsStatus(k) ==
    /\ k.pc = "stop_wait"
    /\ Return(k, "stop", "ok", "True", Absent, 0)
    /\ lock' = FALSE
    /\ UNCHANGED <<sandboxes, everRegistered>>

\* Lines 183-185.
StopDone(k) ==
    /\ k.pc = "stop_wait"
    /\ sandboxes' = [sandboxes EXCEPT ![k.sid].status = "stopped"]
    /\ Return(k, "stop", "ok", "True", Absent, 0)
    /\ lock' = FALSE
    /\ UNCHANGED everRegistered

\* Mutant of StopFailed: the sandbox is recorded as stopped although
\* `docker stop` failed.
StopFailedMarksStopped(k) ==
    /\ k.pc = "stop_wait"
    /\ sandboxes' = [sandboxes EXCEPT ![k.sid].status = "stopped"]
    /\ Return(k, "stop", "failed", "False", Absent, 0)
    /\ lock' = FALSE
    /\ UNCHANGED everRegistered

\* Lines 186-188.
StopFailed(k) ==
    /\ k.pc = "stop_wait"
    /\ Return(k, "stop", "failed", "False", Absent, 0)
    /\ lock' = FALSE
    /\ UNCHANGED <<sandboxes, everRegistered>>

\* ------------------------------------------------------- start_sandbox
\* Mutant of StartSandbox: no early return for a sandbox that is running.
StartSandboxAlwaysRuns(s) ==
    /\ LockFree
    /\ IF ~Registered(s)
       THEN /\ ReturnAtOnce("start", s, "absent", "False", Absent, EmptyRegistry)
            /\ UNCHANGED lock
       ELSE /\ lock' = TRUE
            /\ RunCommand("start_wait", s, sandboxes[s].container_id,
                          sandboxes[s].status, FALSE)
    /\ UNCHANGED <<sandboxes, everRegistered>>

\* Lines 200-210.
StartSandbox(s) ==
    /\ LockFree
    /\ IF ~Registered(s)
       THEN /\ ReturnAtOnce("start", s, "absent", "False", Absent, EmptyRegistry)
            /\ UNCHANGED lock
       ELSE IF sandboxes[s].status = "running"
       THEN /\ ReturnAtOnce("start", s, "running", "True", Absent, EmptyRegistry)
            /\ UNCHANGED lock
       ELSE /\ lock' = TRUE
            /\ RunCommand("start_wait", s, sandboxes[s].container_id,
                          sandboxes[s].status, FALSE)
    /\ UNCHANGED <<sandboxes, everRegistered>>

\* Lines 211-213.
StartDone(k) ==
    /\ k.pc = "start_wait"
    /\ sandboxes' = [sandboxes EXCEPT ![k.sid].status = "running"]
    /\ Return(k, "start", "ok", "True", Absent, 0)
    /\ lock' = FALSE
    /\ UNCHANGED everRegistered

\* Lines 214-216.
StartFailed(k) ==
    /\ k.pc = "start_wait"
    /\ Return(k, "start", "failed", "False", Absent, 0)
    /\ lock' = FALSE
    /\ UNCHANGED <<sandboxes, everRegistered>>

\* ----------------------------------------------------- destroy_sandbox
\* Mutant of DestroySandbox: an id that is not registered raises KeyError.
DestroySandboxRaises(s, rv) ==
    /\ LockFree
    /\ IF ~Registered(s)
       THEN /\ ReturnAtOnce("destroy", s, "absent", "KeyError", Absent, EmptyRegistry)
            /\ UNCHANGED lock
       ELSE /\ lock' = TRUE
            /\ RunCommand("destroy_rm", s, sandboxes[s].container_id,
                          sandboxes[s].status, rv)
    /\ UNCHANGED <<sandboxes, everRegistered>>

\* Lines 229-237.
DestroySandbox(s, rv) ==
    /\ LockFree
    /\ IF ~Registered(s)
       THEN /\ ReturnAtOnce("destroy", s, "absent", "False", Absent, EmptyRegistry)
            /\ UNCHANGED lock
       ELSE /\ lock' = TRUE
            /\ RunCommand("destroy_rm", s, sandboxes[s].container_id,
                          sandboxes[s].status, rv)
    /\ UNCHANGED <<sandboxes, everRegistered>>

\* Lines 253-255: `docker rm -f` failed.
DestroyRmFailed(k) ==
    /\ k.pc = "destroy_rm"
    /\ Return(k, "destroy", "rm_failed", "False", Absent, 0)
    /\ lock' = FALSE
    /\ UNCHANGED <<sandboxes, everRegistered>>

\* Lines 247-251: del self.sandboxes[sandbox_id]; return True.
Forget(k, rt) ==
    /\ sandboxes' = [sandboxes EXCEPT ![k.sid] = Absent]
    /\ Return(k, "destroy", rt, "True", Absent, 0)
    /\ lock' = FALSE
    /\ UNCHANGED everRegistered

\* Mutant of DestroyRmDone: the entry is deleted as soon as the container is
\* gone, before the volume is removed.
DestroyRmDoneForgetsFirst(k) ==
    /\ k.pc = "destroy_rm"
    /\ IF k.remove_volume
       THEN /\ RunNextCommand(k, "destroy_volume")
            /\ sandboxes' = [sandboxes EXCEPT ![k.sid] = Absent]
            /\ UNCHANGED <<lock, everRegistered>>
       ELSE Forget(k, "ok")

\* Lines 239-243: the container is gone; remove the volume if asked to.
DestroyRmDone(k) ==
    /\ k.pc = "destroy_rm"
    /\ IF k.remove_volume
       THEN /\ RunNextCommand(k, "destroy_volume")
            /\ UNCHANGED <<sandboxes, lock, everRegistered>>
       ELSE Forget(k, "ok")

\* Mutant of DestroyVolumeDone: a failed volume removal fails the call, like a
\* failed container removal.
DestroyVolumeDoneStrict(k, removed) ==
    /\ k.pc = "destroy_volume"
    /\ IF removed
       THEN Forget(k, "ok")
       ELSE /\ Return(k, "destroy", "volume_failed", "False", Absent, 0)
            /\ lock' = FALSE
            /\ UNCHANGED <<sandboxes, everRegistered>>

\* Lines 243-251: `docker volume rm` answered; a failure is only logged.
DestroyVolumeDone(k, removed) ==
    /\ k.pc = "destroy_volume"
    /\ Forget(k, IF removed THEN "ok" ELSE "volume_failed")

\* ----------------------------------------------------- execute_command
\* the exit codes `docker exec` can end with
ExitCodes == {0, 1}

\* Mutant of ExecuteCommand: one test for "no record or not running".
ExecuteCommandOneTest(s) ==
    /\ IF ~Registered(s) \/ sandboxes[s].status # "running"
       THEN ReturnAtOnce("execute", s, sandboxes[s].status, "RuntimeError",
                         Absent, EmptyRegistry)
       ELSE RunCommand("execute_wait", s, sandboxes[s].container_id,
                       sandboxes[s].status, FALSE)
    /\ UNCHANGED <<sandboxes, lock, everRegistered>>

\* Mutant of ExecuteCommand: the status of the sandbox is not looked at.
ExecuteCommandAnyStatus(s) ==
    /\ IF ~Registered(s)
       THEN ReturnAtOnce("execute", s, "absent", "ValueError", Absent, EmptyRegistry)
       ELSE RunCommand("execute_wait", s, sandboxes[s].container_id,
                       sandboxes[s].status, FALSE)
    /\ UNCHANGED <<sandboxes, lock, everRegistered>>

\* Lines 274-284.
ExecuteCommand(s) ==
    /\ IF ~Registered(s)
       THEN ReturnAtOnce("execute", s, "absent", "ValueError", Absent, EmptyRegistry)
       ELSE IF sandboxes[s].status # "running"
       THEN ReturnAtOnce("execute", s, sandboxes[s].status, "RuntimeError",
                         Absent, EmptyRegistry)
       ELSE RunCommand("execute_wait", s, sandboxes[s].container_id,
                       sandboxes[s].status, FALSE)
    /\ UNCHANGED <<sandboxes, lock, everRegistered>>

\* Mutant of ExecuteDone: a non-zero exit is raised, as _run_command does.
ExecuteDoneRaises(k, rc) ==
    /\ k.pc = "execute_wait"
    /\ Return(k, "execute", IF rc = 0 THEN "ok" ELSE "failed",
              IF rc = 0 THEN "tuple" ELSE "RuntimeError", Absent, rc)
    /\ UNCHANGED <<sandboxes, lock, everRegistered>>

\* Lines 285, 386-402: the exit code comes back as a value.
ExecuteDone(k, rc) ==
    /\ k.pc = "execute_wait"
    /\ Return(k, "execute", "ok", "tuple", Absent, rc)
    /\ UNCHANGED <<sandboxes, lock, everRegistered>>

\* ------------------------------------------------------------- router
\* src/server/routers/sandbox.py: the HTTP status a finished manager call is
\* turned into.
HttpStatus(c) ==
    CASE c.op = "create" -> IF c.ret = "info" THEN 200 ELSE 500
      [] c.op = "get" -> IF c.ret = "None" THEN 404 ELSE 200
      [] c.op = "list" -> 200
      [] c.op \in {"start", "stop", "destroy"} -> IF c.ret = "True" THEN 200 ELSE 500
      [] c.op = "execute" -> IF c.ret = "ValueError" THEN 404
                             ELSE IF c.ret = "RuntimeError" THEN 400 ELSE 200
      [] OTHER -> 0

\* ------------------------------------------------------ specification
\* A step of the manager while no cleanup is under way.
ManagerOnly == UNCHANGED <<age, cleaner, held, kill, auth, waiters, agent>>

Next ==
    \/ \E s \in Ids : CreateSandbox(s) /\ ManagerOnly
    \/ \E k \in Suspended : CreateVolumeFailed(k) /\ ManagerOnly
    \/ \E k \in Suspended : CreateVolumeDone(k) /\ ManagerOnly
    \/ \E k \in Suspended, c \in ContainerIds : CreateRunDone(k, c) /\ ManagerOnly
    \/ \E k \in Suspended : CreateRunFailed(k) /\ ManagerOnly
    \/ \E s \in Ids : GetSandbox(s) /\ ManagerOnly
    \/ ListSandboxes /\ ManagerOnly
    \/ \E s \in Ids : StopSandbox(s) /\ ManagerOnly
    \/ \E k \in Suspended : StopDone(k) /\ ManagerOnly
    \/ \E k \in Suspended : StopFailed(k) /\ ManagerOnly
    \/ \E s \in Ids : StartSandbox(s) /\ ManagerOnly
    \/ \E k \in Suspended : StartDone(k) /\ ManagerOnly
    \/ \E k \in Suspended : StartFailed(k) /\ ManagerOnly
    \/ \E s \in Ids, rv \in BOOLEAN : DestroySandbox(s, rv) /\ ManagerOnly
    \/ \E k \in Suspended : DestroyRmFailed(k) /\ ManagerOnly
    \/ \E k \in Suspended : DestroyRmDone(k) /\ ManagerOnly
    \/ \E k \in Suspended, removed \in BOOLEAN : DestroyVolumeDone(k, removed) /\ ManagerOnly
    \/ \E s \in Ids : ExecuteCommand(s) /\ ManagerOnly
    \/ \E k \in Suspended, rc \in ExitCodes : ExecuteDone(k, rc) /\ ManagerOnly

Spec == Init /\ [][Next]_vars

\* ============================================================== claims

\* The calls that are inside `async with self._lock`.
InCritical(k) ==
    k.pc \in {"create_volume", "create_run", "stop_wait", "start_wait",
              "destroy_rm", "destroy_volume"}

Critical == {k \in Suspended : InCritical(k)}

\* C1 (as claimed): every record create_sandbox registers gets a sandbox id
\* under which no record was registered before, so the ids of the records of
\* any N creates are pairwise distinct and no create overwrites an entry.
C1_CreateIdsDistinct ==
    [][\A k \in Suspended :
          (CreateRunFailed(k) \/ \E c \in ContainerIds : CreateRunDone(k, c))
              => k.sid \notin everRegistered]_vars

\* C2: at most one create/start/stop/destroy is inside its critical section,
\* and the lock is held exactly while one is.
C2_MutualExclusion ==
    /\ Cardinality(Critical) <= 1
    /\ \A k \in Critical : CopiesIn(k, inflight) = 1
    /\ lock <=> Critical # {}

\* C2 witness: a mutating call holds the lock, suspended in docker, while
\* another call is in flight as well.
C2_Witness ==
    /\ Critical # {}
    /\ BagCardinality(inflight) = MaxInFlight

\* C3 (as claimed): while create_sandbox awaits `docker volume create` or
\* `docker run`, get_sandbox of its id finds a record with status creating and
\* an empty container_id.
C3_CreatingVisible ==
    \A k \in Suspended :
        k.pc \in {"create_volume", "create_run"}
            => sandboxes[k.sid] = SandboxInfo(EmptyContainerId, "creating")

\* C4 (as claimed): a create_sandbox whose run request succeeded leaves the
\* sandbox registered as running with the container id docker printed and
\* returns that record; a create_sandbox that the runtime failed leaves the
\* sandbox registered with status error and raises.
C4_CreateOutcome ==
    last.op = "create" =>
        IF last.rt = "ok"
        THEN /\ last.ret = "info"
             /\ last.info.status = "running"
             /\ last.info.container_id \in ContainerIds
             /\ sandboxes[last.sid] = last.info
        ELSE /\ last.ret = "RuntimeError"
             /\ sandboxes[last.sid].status = "error"

\* The first of two stop_sandbox calls on a running sandbox has returned.
C5_First(anyAnswer) ==
    (last.op = "stop" /\ last.pre = "running" /\ (anyAnswer \/ last.rt = "ok"))
        => (last.ret = "True" /\ sandboxes[last.sid].status = "stopped")

\* The step in which stop_sandbox is called again right after that.
C5_Second(anyAnswer) ==
    (/\ last.op = "stop" /\ last.pre = "running" /\ (anyAnswer \/ last.rt = "ok")
     /\ StopSandbox(last.sid))
        => /\ last'.op = "stop" /\ last'.sid = last.sid
           /\ last'.ret = "True"
           /\ sandboxes'[last.sid].status = "stopped"

\* C5 (as claimed): stop_sandbox twice in a row on a running sandbox returns
\* True both times and the status is stopped after either call, whatever the
\* runtime answers.
C5_StopTwiceAlways == [][C5_First(TRUE)' /\ C5_Second(TRUE)]_vars

\* C5 (amended): when `docker stop` succeeds, stop_sandbox twice in a row on a
\* running sandbox returns True both times and the status is stopped after
\* the first call and after the second.
C5_StopTwice == [][C5_First(FALSE)' /\ C5_Second(FALSE)]_vars

\* C5 witness: the second stop returned True right after a first stop that
\* had found the sandbox running.
C5_Witness ==
    /\ last.op = "stop" /\ last.pre = "stopped" /\ last.repeats = "running"
    /\ last.ret = "True"
    /\ sandboxes[last.sid].status = "stopped"

\* C6: stop_sandbox on a stopped sandbox and start_sandbox on a running one
\* return True, issue no docker command and leave the registry as it was.
C6_NoOpStartStop ==
    [][\A s \in Ids :
          ((StopSandbox(s) /\ sandboxes[s].status = "stopped")
              \/ (StartSandbox(s) /\ sandboxes[s].status = "running"))
          => /\ last'.ret = "True" /\ last'.ncmd = 0 /\ last'.rt = "none"
             /\ inflight' = inflight
             /\ sandboxes' = sandboxes]_vars

\* C6 witness: start_sandbox on a running sandbox has returned True.
C6_Witness ==
    /\ last.op = "start" /\ last.pre = "running" /\ last.ret = "True"
    /\ last.ncmd = 0
    /\ sandboxes[last.sid].status = "running"
    /\ sandboxes[last.sid].container_id \in ContainerIds

\* C7: get_sandbox and execute_command on an id that is not registered yield
\* NotFound (None, ValueError; 404 from the router), issue no docker command
\* and leave the registry as it was.
C7_UnknownIdNotFound ==
    [][\A s \in Ids : ~Registered(s) =>
          /\ GetSandbox(s) =>
                /\ last'.ret = "None" /\ HttpStatus(last') = 404
                /\ inflight' = inflight /\ sandboxes' = sandboxes
          /\ ExecuteCommand(s) =>
                /\ last'.op = "execute" /\ last'.ret = "ValueError"
                /\ HttpStatus(last') = 404 /\ last'.ncmd = 0
                /\ inflight' = inflight /\ sandboxes' = sandboxes]_vars

\* C7 witness: execute_command on the id of a destroyed sandbox raised
\* ValueError.
C7_Witness ==
    /\ last.op = "execute" /\ last.ret = "ValueError"
    /\ last.sid \in everRegistered
    /\ ~Registered(last.sid)

\* C8: execute_command on a registered sandbox that is not running raises
\* RuntimeError (400 from the router, not the 404 of an unknown id), issues no
\* docker command and leaves the registry as it was.
C8_NotRunningPrecondition ==
    [][\A s \in Ids :
          (Registered(s) /\ sandboxes[s].status # "running" /\ ExecuteCommand(s))
          => /\ last'.op = "execute" /\ last'.ret = "RuntimeError"
             /\ HttpStatus(last') = 400 /\ last'.ncmd = 0
             /\ inflight' = inflight /\ sandboxes' = sandboxes]_vars

\* C8 witness: execute_command on a stopped sandbox raised RuntimeError.
C8_Witness ==
    /\ last.op = "execute" /\ last.pre = "stopped" /\ last.ret = "RuntimeError"
    /\ sandboxes[last.sid].status = "stopped"

\* C9 (as claimed): what start/stop/destroy_sandbox give for an unknown id is
\* never what the same operation gives when docker fails on a known id,
\* neither as return value nor as HTTP status.
C9_NotFoundDistinct ==
    [][(/\ last.op \in {"start", "stop", "destroy"}
        /\ last.rt \in {"failed", "rm_failed"}
        /\ last'.op = last.op
        /\ last'.pre = "absent")
       => (last'.ret # last.ret /\ HttpStatus(last') # HttpStatus(last))]_vars

\* C10 (as claimed): once destroy_sandbox on a registered sandbox has
\* returned, the sandbox is neither listed nor found and the call succeeded.
C10_DestroyedAlwaysGone ==
    (last.op = "destroy" /\ last.pre # "absent")
        => (last.ret = "True" /\ ~Registered(last.sid))

\* C10 (amended): once destroy_sandbox on a registered sandbox has returned
\* and `docker rm -f` succeeded, the sandbox is neither listed nor found and
\* the call returned True, also when `docker volume rm` failed.
C10_DestroyedGone ==
    (last.op = "destroy" /\ last.pre # "absent" /\ last.rt # "rm_failed")
        => /\ last.ret = "True"
           /\ last.rt \in {"ok", "volume_failed"}
           /\ sandboxes[last.sid] = Absent

\* C10 witness: destroy_sandbox returned True although the volume removal
\* failed, and the sandbox is gone.
C10_Witness ==
    /\ last.op = "destroy" /\ last.rt = "volume_failed" /\ last.ret = "True"
    /\ ~Registered(last.sid)

\* ======================================== cleanup_stopped_sandboxes

\* to_remove: the keys whose record is stopped and older than older_than_hours
Selected(h) == {s \in Ids : sandboxes[s].status = "stopped" /\ age[s] > h}

\* The orders in which a dict can hold the keys S.
Orders(S) ==
    {q \in [1..Cardinality(S) -> S] : \A s \in S : \E j \in 1..Cardinality(S) : q[j] = s}

\* The scan: no suspension point, so it reads the registry in one stretch.
CleanupStoppedSandboxes(h) ==
    /\ cleaner.pc = "idle"
    /\ \E q \in Orders(Selected(h)) :
          cleaner' = [pc |-> "loop", h |-> h, to_remove |-> q,
                      i |-> 0, count |-> 0, removed |-> 0]
    /\ last' = NoCall
    /\ UNCHANGED <<sandboxes, lock, inflight, everRegistered>>

\* `await self.destroy_sandbox(sandbox_id)` for the next key of to_remove.
CleanupDestroyNext ==
    /\ cleaner.pc = "loop"
    /\ cleaner.i < Len(cleaner.to_remove)
    /\ DestroySandbox(cleaner.to_remove[cleaner.i + 1], TRUE)
    /\ cleaner' = IF last'.op = "destroy"
                  THEN [cleaner EXCEPT !.i = @ + 1]
                  ELSE [cleaner EXCEPT !.i = @ + 1, !.pc = "in_destroy"]

\* Mutant of CleanerResumes: the loop ends at the first destroy that fails.
CleanerStopsAtFailure ==
    cleaner' = IF cleaner.pc = "in_destroy" /\ last'.op = "destroy"
               THEN IF last'.ret = "True"
                    THEN [cleaner EXCEPT !.pc = "loop", !.count = @ + 1, !.removed = @ + 1]
                    ELSE [cleaner EXCEPT !.pc = "done"]
               ELSE cleaner

\* What a step of destroy_sandbox means to the cleanup that awaits it: while
\* the cleanup is inside destroy_sandbox it holds the lock, so the destroy
\* that returns is its own; `if await ...: count += 1`, then the next key.
CleanerResumes ==
    cleaner' = IF cleaner.pc = "in_destroy" /\ last'.op = "destroy"
               THEN [cleaner EXCEPT
                        !.pc = "loop",
                        !.count = IF last'.ret = "True" THEN @ + 1 ELSE @,
                        !.removed = IF /\ sandboxes[last'.sid].status # "absent"
                                       /\ sandboxes'[last'.sid].status = "absent"
                                    THEN @ + 1 ELSE @]
               ELSE cleaner

\* `return count`
CleanupReturn ==
    /\ cleaner.pc = "loop"
    /\ cleaner.i = Len(cleaner.to_remove)
    /\ cleaner' = [cleaner EXCEPT !.pc = "done"]
    /\ last' = NoCall
    /\ UNCHANGED <<sandboxes, lock, inflight, everRegistered>>

\* A manager that already holds records: cleanup_stopped_sandboxes is called
\* once, while other callers start and destroy sandboxes.
CleanupInit ==
    /\ sandboxes \in [Ids -> {Absent, SandboxInfo(EmptyContainerId, "error")}
                             \cup {SandboxInfo(c, st) : c \in ContainerIds,
                                                        st \in {"running", "stopped"}}]
    /\ age \in [Ids -> 0..MaxAge]
    /\ \A s \in Ids : ~Registered(s) => age[s] = 0
    /\ lock = FALSE
    /\ inflight = EmptyBag
    /\ last = NoCall
    /\ everRegistered = {s \in Ids : Registered(s)}
    /\ cleaner = IdleCleaner
    /\ held = NoHeld
    /\ kill = NoKill
    /\ auth = NoAuth
    /\ waiters = NoWaiters
    /\ agent = NoAgent

\* A step of, or under, the cleanup.
CleanupOnly == UNCHANGED <<age, held, kill, auth, waiters, agent>>

CleanupNext ==
    \/ \E h \in 0..MaxAge : CleanupStoppedSandboxes(h) /\ CleanupOnly
    \/ CleanupDestroyNext /\ CleanupOnly
    \/ CleanupReturn /\ CleanupOnly
    \/ \E k \in Suspended : DestroyRmFailed(k) /\ CleanerResumes /\ CleanupOnly
    \/ \E k \in Suspended : DestroyRmDone(k) /\ CleanerResumes /\ CleanupOnly
    \/ \E k \in Suspended, removed \in BOOLEAN :
          DestroyVolumeDone(k, removed) /\ CleanerResumes /\ CleanupOnly
    \/ \E s \in Ids, rv \in BOOLEAN : DestroySandbox(s, rv) /\ ManagerOnly
    \/ \E s \in Ids : StartSandbox(s) /\ ManagerOnly
    \/ \E k \in Suspended : StartDone(k) /\ ManagerOnly
    \/ \E k \in Suspended : StartFailed(k) /\ ManagerOnly

CleanupSpec == CleanupInit /\ [][CleanupNext]_vars

\* C11 (as claimed): cleanup_stopped_sandboxes(h) destroys only entries that
\* are stopped and older than h hours: whenever one of its destroy calls
\* changes the registry, the entry it changes has status stopped and an age
\* strictly above h; running and error entries, and stopped entries of age
\* at most h, are left as they are.  (While the cleanup is inside
\* destroy_sandbox it holds the lock, so the change is its own.)
C11_CleanupOnlyStoppedAndOld ==
    [][\A s \in Ids :
          (cleaner.pc = "in_destroy" /\ sandboxes'[s] # sandboxes[s])
             => (sandboxes[s].status = "stopped" /\ age[s] > cleaner.h)]_vars

\* C12: cleanup_stopped_sandboxes calls destroy_sandbox for every key of
\* to_remove, also after a destroy that failed, and the count it returns is
\* the number of its destroys that succeeded, which is the number of entries
\* it removed from the registry.
C12_CleanupCountsSuccesses ==
    /\ cleaner.count = cleaner.removed
    /\ cleaner.count <= cleaner.i
    /\ cleaner.pc = "done" => cleaner.i = Len(cleaner.to_remove)

\* Two entries were selected, the destroy of the first failed, the second was
\* destroyed all the same, and the cleanup returned 1.
C12_Witness ==
    /\ cleaner.pc = "done"
    /\ Len(cleaner.to_remove) = 2
    /\ cleaner.count = 1
    /\ Registered(cleaner.to_remove[1])
    /\ ~Registered(cleaner.to_remove[2])

\* ===================================================== record invariants

\* C13 (as claimed): after every step, each registered sandbox whose status
\* is running or stopped has a non-empty container_id, and a record that
\* stays in the registry keeps the container_id it was given (a create that
\* registers a new record under the id is a new record).
C13_ContainerIdSetOnce ==
    [][/\ \A s \in Ids :
             sandboxes'[s].status \in {"running", "stopped"}
                => sandboxes'[s].container_id # EmptyContainerId
       /\ \A s \in Ids :
             (/\ sandboxes[s].container_id # EmptyContainerId
              /\ sandboxes'[s].status # "absent"
              /\ ~(last'.op = "create" /\ last'.sid = s))
                => sandboxes'[s].container_id = sandboxes[s].container_id]_vars

\* C14 (as claimed): a record whose status is error keeps that status until
\* it is destroyed, whatever start_sandbox and stop_sandbox are answered by
\* the runtime, and execute_command on it raises the not-running error.
C14_ErrorIsTerminal ==
    [][/\ \A s \in Ids :
             (sandboxes[s].status = "error" /\ ~(last'.op = "create" /\ last'.sid = s))
                => sandboxes'[s].status \in {"error", "absent"}
       /\ (last'.op = "execute" /\ last'.pre = "error")
             => last'.ret = "RuntimeError"]_vars

\* ============================================= what a caller is handed

\* create_sandbox returns `info`, the object it has just stored;
\* get_sandbox returns self.sandboxes.get(sandbox_id) and list_sandboxes a
\* list of self.sandboxes.values(): the objects of the registry.  The caller
\* keeps the one returned for key s in the step before.
CallerKeeps(s) ==
    /\ held = NoHeld
    /\ \/ last.ret = "info" /\ last.sid = s /\ last.info = sandboxes[s]
       \/ last.ret = "list" /\ last.lst[s] = sandboxes[s]
    /\ Registered(s)
    /\ held' = [sid |-> s, linked |-> TRUE, returned |-> sandboxes[s],
                current |-> sandboxes[s], written |-> FALSE]
    /\ last' = NoCall
    /\ UNCHANGED <<sandboxes, lock, inflight, everRegistered>>

\* The caller assigns to the status field of the object it keeps.
CallerWrites(st) ==
    /\ held.sid # NoId
    /\ ~held.written
    /\ held.current.status # st
    /\ held' = [held EXCEPT !.current.status = st, !.written = TRUE]
    /\ sandboxes' = IF held.linked
                    THEN [sandboxes EXCEPT ![held.sid].status = st]
                    ELSE sandboxes
    /\ last' = NoCall
    /\ UNCHANGED <<lock, inflight, everRegistered>>

\* What a step of the manager does to the kept object: `del` and the store
\* of a new record under the key leave the object alone and unlink it;
\* `info.status = ...` in stop_sandbox and start_sandbox assigns to it.
HeldFollows ==
    held' = IF held.sid = NoId \/ ~held.linked
            THEN held
            ELSE IF \/ sandboxes'[held.sid].status = "absent"
                    \/ last'.op = "create" /\ last'.sid = held.sid
            THEN [held EXCEPT !.linked = FALSE]
            ELSE [held EXCEPT !.current = sandboxes'[held.sid]]

AliasOnly == UNCHANGED <<age, cleaner, kill, auth, waiters, agent>>

AliasNext ==
    \/ \E s \in Ids : CallerKeeps(s) /\ AliasOnly
    \/ \E st \in {"running", "stopped"} : CallerWrites(st) /\ AliasOnly
    \/ \E s \in Ids : CreateSandbox(s) /\ HeldFollows /\ AliasOnly
    \/ \E k \in Suspended : CreateVolumeFailed(k) /\ HeldFollows /\ AliasOnly
    \/ \E k \in Suspended : CreateVolumeDone(k) /\ HeldFollows /\ AliasOnly
    \/ \E k \in Suspended, c \in ContainerIds : CreateRunDone(k, c) /\ HeldFollows /\ AliasOnly
    \/ \E k \in Suspended : CreateRunFailed(k) /\ HeldFollows /\ AliasOnly
    \/ \E s \in Ids : GetSandbox(s) /\ HeldFollows /\ AliasOnly
    \/ ListSandboxes /\ HeldFollows /\ AliasOnly
    \/ \E s \in Ids : StopSandbox(s) /\ HeldFollows /\ AliasOnly
    \/ \E k \in Suspended : StopDone(k) /\ HeldFollows /\ AliasOnly
    \/ \E k \in Suspended : StopFailed(k) /\ HeldFollows /\ AliasOnly
    \/ \E s \in Ids : StartSandbox(s) /\ HeldFollows /\ AliasOnly
    \/ \E k \in Suspended : StartDone(k) /\ HeldFollows /\ AliasOnly
    \/ \E k \in Suspended : StartFailed(k) /\ HeldFollows /\ AliasOnly
    \/ \E s \in Ids, rv \in BOOLEAN : DestroySandbox(s, rv) /\ HeldFollows /\ AliasOnly
    \/ \E k \in Suspended : DestroyRmFailed(k) /\ HeldFollows /\ AliasOnly
    \/ \E k \in Suspended : DestroyRmDone(k) /\ HeldFollows /\ AliasOnly
    \/ \E k \in Suspended, removed \in BOOLEAN :
          DestroyVolumeDone(k, removed) /\ HeldFollows /\ AliasOnly

AliasSpec == Init /\ [][AliasNext]_vars

\* C15 (as claimed): callers receive copies.  A SandboxInfo returned by
\* create_sandbox, get_sandbox or list_sandboxes keeps the fields it was
\* returned with whatever the manager does afterwards, and an assignment the
\* caller makes to it leaves the registry as it is.
C15_CallersGetCopies ==
    [][/\ (held'.sid # NoId /\ ~held'.written) => held'.current = held'.returned
       /\ (held'.written /\ ~held.written) => sandboxes' = sandboxes]_vars

\* C16: an execute_command that reached the runtime returns the exit code
\* (with stdout and stderr) as a value, for exit code zero and non-zero
\* alike; it raises nothing, the router answers 200, and the registry is
\* left as it was.
C16_ExitCodeIsAValue ==
    [][(last'.op = "execute" /\ last'.ncmd = 1)
          => /\ last'.ret = "tuple"
             /\ last'.rc \in ExitCodes
             /\ HttpStatus(last') = 200
             /\ sandboxes' = sandboxes]_vars

\* A command run in a running sandbox exited non-zero and came back as a value.
C16_Witness ==
    /\ last.op = "execute"
    /\ last.pre = "running"
    /\ last.ret = "tuple"
    /\ last.rc # 0

\* ================================================== kill_process_tree

\* kill_process_tree touches nothing of the manager.
KillOnly ==
    UNCHANGED <<sandboxes, lock, inflight, last, everRegistered, age, cleaner, held, auth,
                waiters, agent>>

\* Lines 57-60: psutil.Process(proc.pid) and parent.children(recursive=True)
\* answer with a snapshot of n descendants.  A process that has exited has
\* none left: they were handed to init.
Enumerate(n) ==
    /\ kill.pc = "enumerate"
    /\ kill.root = "exited" => n = 0
    /\ kill' = [kill EXCEPT !.pc = "terminate_children", !.path = "normal", !.n = n,
                            !.result.children_found = n]
    /\ KillOnly

\* Lines 57-59 raise NoSuchProcess or AccessDenied: on to line 117.
EnumerateRaises ==
    /\ kill.pc = "enumerate"
    /\ kill' = [kill EXCEPT !.pc = "fallback", !.path = "fallback"]
    /\ KillOnly

\* Mutant of TerminateChild: the error of a child that is gone or
\* inaccessible is not caught.
TerminateChildAborts(delivered) ==
    /\ kill.pc = "terminate_children"
    /\ kill.j < kill.n
    /\ kill' = IF delivered
               THEN [kill EXCEPT !.j = @ + 1, !.term = @ \cup {kill.j + 1}]
               ELSE [kill EXCEPT !.j = @ + 1, !.pc = "raised"]
    /\ KillOnly

\* Lines 68-75: child.terminate() for the next child of the snapshot; a child
\* already gone or inaccessible raises, which is logged.
TerminateChild(delivered) ==
    /\ kill.pc = "terminate_children"
    /\ kill.j < kill.n
    /\ kill' = [kill EXCEPT !.j = @ + 1,
                            !.term = IF delivered THEN @ \cup {kill.j + 1} ELSE @]
    /\ KillOnly

\* Mutant of WaitProcs: len(gone) is not recorded.
WaitProcsUncounted(G) ==
    /\ kill.pc = "terminate_children"
    /\ kill.j = kill.n
    /\ kill' = [kill EXCEPT !.pc = "kill_children", !.j = 0, !.gone = G]
    /\ KillOnly

\* Mutant of WaitProcs: the grace wait starts before the terminate loop has
\* been through every child.
WaitProcsEarly(G) ==
    /\ kill.pc = "terminate_children"
    /\ kill' = [kill EXCEPT !.pc = "kill_children", !.j = 0, !.gone = G,
                            !.result.children_terminated = Cardinality(G)]
    /\ KillOnly

\* Lines 78-79: psutil.wait_procs(children, timeout) returns those that have
\* exited by the end of the grace period (G) and those still alive.
WaitProcs(G) ==
    /\ kill.pc = "terminate_children"
    /\ kill.j = kill.n
    /\ kill' = [kill EXCEPT !.pc = "kill_children", !.j = 0, !.gone = G,
                            !.result.children_terminated = Cardinality(G)]
    /\ KillOnly

\* still_alive, and the part of it the loop of line 87 has yet to visit
StillAlive == (1..kill.n) \ kill.gone

Unvisited == {c \in StillAlive : c > kill.j}

\* Mutant of KillChild: a delivered kill is not tallied.
KillChildUncounted(c, delivered) ==
    /\ kill.pc = "kill_children"
    /\ c \in Unvisited
    /\ \A b \in Unvisited : c <= b
    /\ kill' = [kill EXCEPT !.j = c,
                            !.killed = IF delivered THEN @ \cup {c} ELSE @]
    /\ KillOnly

\* Lines 87-93: child.kill() for the next child still alive; the tally grows
\* only when kill() did not raise.
KillChild(c, delivered) ==
    /\ kill.pc = "kill_children"
    /\ c \in Unvisited
    /\ \A b \in Unvisited : c <= b
    /\ kill' = [kill EXCEPT !.j = c,
                            !.killed = IF delivered THEN @ \cup {c} ELSE @,
                            !.result.children_killed = IF delivered THEN @ + 1 ELSE @]
    /\ KillOnly

\* Mutant of TerminateParent: force-killed children leave the status alone.
TerminateParentKeepsStatus(ok) ==
    /\ kill.pc = "kill_children"
    /\ Unvisited = {}
    /\ kill.root = "exited" => ok
    /\ kill' = [kill EXCEPT
                   !.pc = IF ok THEN "wait_parent" ELSE "raised",
                   !.root_term = IF ok THEN "sent" ELSE "raised"]
    /\ KillOnly

\* Lines 95-100: the status after the children, then proc.terminate().  An
\* OSError of a live root is caught nowhere on this path; a root that has
\* exited makes terminate() a no-op.
TerminateParent(ok) ==
    /\ kill.pc = "kill_children"
    /\ Unvisited = {}
    /\ kill.root = "exited" => ok
    /\ kill' = [kill EXCEPT
                   !.pc = IF ok THEN "wait_parent" ELSE "raised",
                   !.root_term = IF ok THEN "sent" ELSE "raised",
                   !.result.status = IF kill.result.children_killed > 0
                                     THEN "partial" ELSE @]
    /\ KillOnly

\* Lines 101-103: proc.wait(timeout=timeout) returns.
ParentExits ==
    /\ kill.pc = "wait_parent"
    /\ kill' = [kill EXCEPT !.pc = "done", !.root_exited = TRUE]
    /\ KillOnly

\* Lines 104-109: TimeoutExpired, proc.kill(), proc.wait().  An OSError of
\* proc.kill() is caught nowhere on this path.
KillParent(ok) ==
    /\ kill.pc = "wait_parent"
    /\ kill.root = "alive"
    /\ kill' = IF ok
               THEN [kill EXCEPT !.pc = "done", !.root_kill = "sent",
                                 !.result.parent_forcekilled = TRUE,
                                 !.result.status = "partial"]
               ELSE [kill EXCEPT !.pc = "raised", !.root_kill = "raised"]
    /\ KillOnly

\* Mutant of FallbackTerminate: reaching the fallback degrades the status.
FallbackTerminateGivesUp(answer) ==
    /\ kill.pc = "fallback"
    /\ kill.root = "exited" => answer = "exits"
    /\ kill' = [kill EXCEPT
                   !.pc = IF answer = "exits" THEN "done" ELSE "fallback_kill",
                   !.root_term = IF answer = "oserror" THEN "raised" ELSE "sent",
                   !.root_exited = (answer = "exits"),
                   !.result.status = "failure"]
    /\ KillOnly

\* Lines 122-126: proc.terminate() and proc.wait(timeout=1) on the handle.
\* answer: the root exits in time, does not (TimeoutExpired), or terminate()
\* raises OSError.  A root that has exited makes both return at once.
FallbackTerminate(answer) ==
    /\ kill.pc = "fallback"
    /\ kill.root = "exited" => answer = "exits"
    /\ kill' = [kill EXCEPT
                   !.pc = IF answer = "exits" THEN "done" ELSE "fallback_kill",
                   !.root_term = IF answer = "oserror" THEN "raised" ELSE "sent",
                   !.root_exited = (answer = "exits")]
    /\ KillOnly

\* Mutant of FallbackKill: a delivered kill degrades the status to partial.
FallbackKillMarksPartial(ok) ==
    /\ kill.pc = "fallback_kill"
    /\ kill' = [kill EXCEPT !.pc = "done",
                            !.root_kill = IF ok THEN "sent" ELSE "raised",
                            !.result.status = IF ok THEN "partial" ELSE "failure"]
    /\ KillOnly

\* Lines 127-132: proc.kill(); only its OSError sets status failure.
FallbackKill(ok) ==
    /\ kill.pc = "fallback_kill"
    /\ kill' = [kill EXCEPT !.pc = "done",
                            !.root_kill = IF ok THEN "sent" ELSE "raised",
                            !.result.status = IF ok THEN @ ELSE "failure"]
    /\ KillOnly

\* Line 54: the call, for any pid and for a root that runs or has exited.
KillInit ==
    /\ sandboxes = EmptyRegistry
    /\ lock = FALSE
    /\ inflight = EmptyBag
    /\ last = NoCall
    /\ everRegistered = {}
    /\ age = [s \in Ids |-> 0]
    /\ cleaner = IdleCleaner
    /\ held = NoHeld
    /\ kill \in {KillCall("enumerate", pid, root) : pid \in Pids, root \in {"alive", "exited"}}
    /\ auth = NoAuth
    /\ waiters = NoWaiters
    /\ agent = NoAgent

KillNext ==
    \/ \E n \in 0..MaxChildren : Enumerate(n)
    \/ EnumerateRaises
    \/ \E delivered \in BOOLEAN : TerminateChild(delivered)
    \/ \E G \in SUBSET (1..kill.n) : WaitProcs(G)
    \/ \E c \in 1..MaxChildren, delivered \in BOOLEAN : KillChild(c, delivered)
    \/ \E ok \in BOOLEAN : TerminateParent(ok)
    \/ ParentExits
    \/ \E ok \in BOOLEAN : KillParent(ok)
    \/ \E answer \in {"exits", "timeout", "oserror"} : FallbackTerminate(answer)
    \/ \E ok \in BOOLEAN : FallbackKill(ok)

KillSpec == KillInit /\ [][KillNext]_vars

\* C17: when every descendant of the snapshot (k of them, two for one) has
\* exited by the end of the grace period and the root exits on the graceful
\* signal, the result is status success with children_found =
\* children_terminated = k and children_killed = 0.
C17_AllExitGracefully ==
    (/\ kill.pc = "done"
     /\ kill.path = "normal"
     /\ kill.gone = 1..kill.n
     /\ kill.root_kill = "none")
       => /\ kill.result.status = "success"
          /\ kill.result.children_found = kill.n
          /\ kill.result.children_terminated = kill.n
          /\ kill.result.children_killed = 0

\* Two descendants got the graceful signal and exited in time, the root too.
C17_Witness ==
    /\ kill.pc = "done"
    /\ kill.n = 2
    /\ kill.term = {1, 2}
    /\ kill.gone = {1, 2}
    /\ kill.root_kill = "none"
    /\ kill.result.children_terminated = 2

\* C18 (as claimed): with one descendant, which got the graceful signal and
\* is still alive when the grace period ends, the result is status partial
\* with children_killed = 1 and children_terminated = 0.
C18_IgnoringChildAlways ==
    (/\ kill.pc = "done"
     /\ kill.n = 1
     /\ kill.term = {1}
     /\ kill.gone = {})
       => /\ kill.result.status = "partial"
          /\ kill.result.children_killed = 1
          /\ kill.result.children_terminated = 0

\* C18 (amended): the same, for a descendant the forceful kill is delivered
\* to (child.kill() does not raise).
C18_IgnoringChild ==
    (/\ kill.pc = "done"
     /\ kill.n = 1
     /\ kill.term = {1}
     /\ kill.gone = {}
     /\ kill.killed = {1})
       => /\ kill.result.status = "partial"
          /\ kill.result.children_killed = 1
          /\ kill.result.children_terminated = 0

\* The one descendant ignored the graceful signal and was force-killed.
C18_Witness ==
    /\ kill.pc = "done"
    /\ kill.n = 1
    /\ kill.term = {1}
    /\ kill.gone = {}
    /\ kill.killed = {1}
    /\ kill.result.children_killed = 1

\* C19: a call on a handle whose process has exited raises nothing and
\* returns a KillResult for proc.pid; on the fallback path, and for every
\* exited handle, the status is failure exactly when the fallback's
\* terminate and kill both failed, and success otherwise.
C19_ExitedHandle ==
    /\ kill.root = "exited" => kill.pc # "raised"
    /\ (kill.pc = "done" /\ (kill.root = "exited" \/ kill.path = "fallback"))
          => /\ kill.result.parent_pid = kill.pid
             /\ kill.result.status \in {"success", "failure"}
             /\ kill.result.status = "failure"
                   <=> (kill.root_exited = FALSE /\ kill.root_kill = "raised")

\* The process had exited, psutil could not find it, and the fallback
\* returned success.
C19_Witness ==
    /\ kill.pc = "done"
    /\ kill.root = "exited"
    /\ kill.path = "fallback"
    /\ kill.result.status = "success"

\* A process kill_process_tree force-killed, and whether the root got a signal.
ForceKilled == kill.killed # {} \/ kill.root_kill = "sent"

RootSignaled == kill.root_term = "sent" \/ kill.root_kill = "sent"

\* C20 (as claimed): every returned KillResult has status success exactly
\* when no descendant and no root was force-killed, on either path, and the
\* root could be signaled; status partial when a descendant or the root was
\* force-killed; status failure only when the root could not be signaled at
\* all.
C20_StatusRule ==
    kill.pc = "done"
       => /\ kill.result.status = "success" <=> (~ForceKilled /\ RootSignaled)
          /\ ForceKilled => kill.result.status = "partial"
          /\ kill.result.status = "failure" => ~RootSignaled

\* C21 (as claimed): parent_forcekilled of a returned KillResult is true
\* exactly when proc.kill() was sent to the root, on the normal path or on
\* the fallback path.
C21_ParentForcekilled ==
    kill.pc = "done"
       => (kill.result.parent_forcekilled <=> kill.root_kill = "sent")

\* ======================================================= session cookies

AuthOnly ==
    UNCHANGED <<sandboxes, lock, inflight, last, everRegistered, age, cleaner, held, kill,
                waiters, agent>>

\* _mint_access_token and _mint_refresh_token; j is the jti drawn
AccessToken(u) == Token(u, "access", 0, TRUE)

RefreshToken(u, j) == Token(u, "refresh", j, TRUE)

\* What a request can carry in a cookie: nothing, a token signed with the
\* server's secret, or one whose signature does not verify (_jwt_decode
\* rejects those before it reads the payload, so one of each type stands for
\* all).
Cookies ==
    {NoToken, Token(1, "access", 0, FALSE), Token(1, "refresh", 1, FALSE)}
       \cup {AccessToken(u) : u \in UserIds}
       \cup {RefreshToken(u, j) : u \in UserIds, j \in 1..MaxJti}

\* _hash_refresh_token: sha256 of the cookie string
HashRefreshToken(t) == <<"sha256", t>>

\* A row of refresh_tokens; revoked stands for `revoked_at IS NOT NULL`.
Row(t, u, revoked) == [token_hash |-> HashRefreshToken(t), user_id |-> u, revoked |-> revoked]

\* SELECT ... FROM refresh_tokens WHERE token_hash = :token_hash
RowsOf(t) == {r \in auth.refresh_tokens : r.token_hash = HashRefreshToken(t)}

\* _jwt_decode returns the payload: the signature verifies and, fresh being
\* `_utc_now() < exp_dt`, the token has not expired.
JwtDecodeOk(t, fresh) == t.signed /\ fresh

\* UPDATE refresh_tokens SET revoked_at = ... WHERE token_hash = ... AND revoked_at IS NULL
Revoke(rows, t) ==
    {IF r.token_hash = HashRefreshToken(t) THEN [r EXCEPT !.revoked = TRUE] ELSE r : r \in rows}

\* github_callback and google_callback once the provider has vouched for
\* user u: upsert, mint both tokens, store the refresh token, set the
\* cookies.  A user with no row yet is inserted, and the statement after the
\* INSERT (line 285, int() of a result object) raises: rollback, 500.  A
\* token_hash already stored breaks the UNIQUE constraint: 500.
Callback(u, j) ==
    /\ auth' = IF u \notin auth.users \/ RowsOf(RefreshToken(u, j)) # {}
               THEN [auth EXCEPT !.resp = Response("callback", 500, NoToken, FALSE, FALSE, 0,
                                                   NoToken, NoToken, FALSE)]
               ELSE [auth EXCEPT
                        !.refresh_tokens = @ \cup {Row(RefreshToken(u, j), u, FALSE)},
                        !.resp = Response("callback", 302, NoToken, FALSE, FALSE, 0,
                                          AccessToken(u), RefreshToken(u, j), FALSE)]
    /\ AuthOnly

\* Mutant of Me: the type claim is not looked at.
MeAnyType(t, fresh) ==
    /\ auth' = [auth EXCEPT !.resp =
                   IF t = NoToken \/ ~JwtDecodeOk(t, fresh) \/ t.sub \notin auth.users
                   THEN Response("me", 401, t, fresh, FALSE, 0, NoToken, NoToken, FALSE)
                   ELSE Response("me", 200, t, fresh, FALSE, t.sub, NoToken, NoToken, FALSE)]
    /\ AuthOnly

\* GET /auth/me, lines 667-681
Me(t, fresh) ==
    /\ auth' = [auth EXCEPT !.resp =
                   IF \/ t = NoToken
                      \/ ~JwtDecodeOk(t, fresh)
                      \/ t.type # "access"
                      \/ t.sub \notin auth.users
                   THEN Response("me", 401, t, fresh, FALSE, 0, NoToken, NoToken, FALSE)
                   ELSE Response("me", 200, t, fresh, FALSE, t.sub, NoToken, NoToken, FALSE)]
    /\ AuthOnly

\* The checks of /auth/refresh, lines 686-712
RefreshRejects(t, fresh) ==
    \/ t = NoToken
    \/ ~JwtDecodeOk(t, fresh)
    \/ t.type # "refresh"
    \/ RowsOf(t) = {}
    \/ \E r \in RowsOf(t) : r.revoked

\* Mutant of Refresh: the presented token is not revoked.
RefreshKeepsOld(t, fresh, j) ==
    /\ auth' =
          IF RefreshRejects(t, fresh)
          THEN [auth EXCEPT !.resp = Response("refresh", 401, t, fresh, FALSE, 0,
                                              NoToken, NoToken, FALSE)]
          ELSE LET u == (CHOOSE r \in RowsOf(t) : TRUE).user_id
               IN  IF RowsOf(RefreshToken(u, j)) # {}
                   THEN [auth EXCEPT !.resp = Response("refresh", 500, t, fresh, FALSE, 0,
                                                       NoToken, NoToken, FALSE)]
                   ELSE [auth EXCEPT
                            !.refresh_tokens = @ \cup {Row(RefreshToken(u, j), u, FALSE)},
                            !.resp = Response("refresh", 200, t, fresh, FALSE, 0,
                                              AccessToken(u), RefreshToken(u, j), FALSE)]
    /\ AuthOnly

\* POST /auth/refresh, lines 684-765.  The UPDATE and the INSERT are one
\* transaction: a new token_hash that is already stored raises, the
\* transaction is rolled back and the answer is 500.
Refresh(t, fresh, j) ==
    /\ auth' =
          IF RefreshRejects(t, fresh)
          THEN [auth EXCEPT !.resp = Response("refresh", 401, t, fresh, FALSE, 0,
                                              NoToken, NoToken, FALSE)]
          ELSE LET u == (CHOOSE r \in RowsOf(t) : TRUE).user_id
               IN  IF RowsOf(RefreshToken(u, j)) # {}
                   THEN [auth EXCEPT !.resp = Response("refresh", 500, t, fresh, FALSE, 0,
                                                       NoToken, NoToken, FALSE)]
                   ELSE [auth EXCEPT
                            !.refresh_tokens = Revoke(@, t)
                                                  \cup {Row(RefreshToken(u, j), u, FALSE)},
                            !.resp = Response("refresh", 200, t, fresh, FALSE, 0,
                                              AccessToken(u), RefreshToken(u, j), FALSE)]
    /\ AuthOnly

\* Mutant of Logout: a revocation that fails is answered 500 with the
\* cookies left in place.
LogoutRaises(t, revoked) ==
    /\ auth' =
          IF t # NoToken /\ ~revoked
          THEN [auth EXCEPT !.resp = Response("logout", 500, t, FALSE, FALSE, 0,
                                              NoToken, NoToken, FALSE)]
          ELSE [auth EXCEPT
                   !.refresh_tokens = IF t # NoToken THEN Revoke(@, t) ELSE @,
                   !.resp = Response("logout", 200, t, FALSE, t # NoToken, 0,
                                     NoToken, NoToken, TRUE)]
    /\ AuthOnly

\* POST /auth/logout, lines 768-779; revoked: a cookie was presented and
\* _revoke_refresh_token did not raise.
Logout(t, revoked) ==
    /\ t = NoToken => ~revoked
    /\ auth' = [auth EXCEPT
                   !.refresh_tokens = IF revoked THEN Revoke(@, t) ELSE @,
                   !.resp = Response("logout", 200, t, FALSE, revoked, 0,
                                     NoToken, NoToken, TRUE)]
    /\ AuthOnly

\* The users table holds the seeded users; no refresh token is stored yet.
AuthInit ==
    /\ sandboxes = EmptyRegistry
    /\ lock = FALSE
    /\ inflight = EmptyBag
    /\ last = NoCall
    /\ everRegistered = {}
    /\ age = [s \in Ids |-> 0]
    /\ cleaner = IdleCleaner
    /\ held = NoHeld
    /\ kill = NoKill
    /\ auth \in {AuthState(users, {}) : users \in SUBSET UserIds}
    /\ waiters = NoWaiters
    /\ agent = NoAgent

AuthNext ==
    \/ \E u \in UserIds, j \in 1..MaxJti : Callback(u, j)
    \/ \E t \in Cookies, fresh \in BOOLEAN : Me(t, fresh)
    \/ \E t \in Cookies, fresh \in BOOLEAN, j \in 1..MaxJti : Refresh(t, fresh, j)
    \/ \E t \in Cookies, revoked \in BOOLEAN : Logout(t, revoked)

AuthSpec == AuthInit /\ [][AuthNext]_vars

Unrevoked(rows) == {r \in rows : ~r.revoked}

\* C22: a refresh token is accepted by /auth/refresh at most once.  A refresh
\* answered 200 presented a stored, unrevoked token, leaves it revoked,
\* stores exactly one new unrevoked token for the same user and sets both
\* cookies; no step removes a row or clears a revocation, so the token is
\* revoked at every later request; and a refresh presenting an unknown or
\* revoked token is answered 401 and stores nothing.
C22_RefreshAtMostOnce ==
    [][/\ \A r \in auth.refresh_tokens :
             \E q \in auth'.refresh_tokens :
                /\ q.token_hash = r.token_hash
                /\ q.user_id = r.user_id
                /\ r.revoked => q.revoked
       /\ auth'.resp.op = "refresh" =>
             LET t == auth'.resp.token
                 old == {r \in auth.refresh_tokens : r.token_hash = HashRefreshToken(t)}
             IN  /\ auth'.resp.status = 200 =>
                       /\ old # {} /\ \A r \in old : ~r.revoked
                       /\ \A r \in auth'.refresh_tokens :
                             r.token_hash = HashRefreshToken(t) => r.revoked
                       /\ \E u \in UserIds :
                             /\ \A r \in old : r.user_id = u
                             /\ auth'.resp.set_refresh \notin {t, NoToken}
                             /\ auth'.resp.set_access = AccessToken(u)
                             /\ Unrevoked(auth'.refresh_tokens) \ Unrevoked(auth.refresh_tokens)
                                   = {Row(auth'.resp.set_refresh, u, FALSE)}
                 /\ (old = {} \/ \E r \in old : r.revoked) =>
                       /\ auth'.resp.status = 401
                       /\ auth'.refresh_tokens = auth.refresh_tokens]_vars

\* A signed, unexpired refresh token whose row is revoked while the user
\* holds a newer unrevoked one, as after its rotation, is answered 401.
C22_Witness ==
    /\ auth.resp.op = "refresh"
    /\ auth.resp.status = 401
    /\ auth.resp.token.signed /\ auth.resp.fresh
    /\ \E r \in auth.refresh_tokens, n \in auth.refresh_tokens :
          /\ r.token_hash = HashRefreshToken(auth.resp.token)
          /\ r.revoked
          /\ n.user_id = r.user_id /\ ~n.revoked

\* C23: /auth/logout always answers 200 and clears both cookies, whether or
\* not a cookie was presented and whether or not the revocation failed; when
\* the revocation succeeded every stored row of the presented token is
\* revoked, and a /auth/refresh presenting a revoked token is answered 401.
C23_LogoutAlwaysClears ==
    [][/\ auth'.resp.op = "logout" =>
             /\ auth'.resp.status = 200
             /\ auth'.resp.cleared
             /\ auth'.resp.revoked =>
                   /\ auth'.refresh_tokens = Revoke(auth.refresh_tokens, auth'.resp.token)
                   /\ \A r \in auth'.refresh_tokens :
                         r.token_hash = HashRefreshToken(auth'.resp.token) => r.revoked
             /\ ~auth'.resp.revoked => auth'.refresh_tokens = auth.refresh_tokens
       /\ (/\ auth'.resp.op = "refresh"
           /\ \E r \in auth.refresh_tokens :
                 r.token_hash = HashRefreshToken(auth'.resp.token) /\ r.revoked)
             => auth'.resp.status = 401]_vars

\* The only stored token was revoked, which only logout can have done, and
\* is then presented signed and unexpired to /auth/refresh: 401.
C23_Witness ==
    /\ auth.resp.op = "refresh"
    /\ auth.resp.status = 401
    /\ auth.resp.token.signed /\ auth.resp.fresh
    /\ \E u \in UserIds : auth.refresh_tokens = {Row(auth.resp.token, u, TRUE)}

\* C24: /auth/me returns a user only for a validly signed, unexpired token
\* of type access whose subject is an existing user, and returns that user;
\* no cookie, a refresh-type token or a subject that does not exist is
\* answered 401.
C24_MeNeedsAccessToken ==
    auth.resp.op = "me" =>
        LET t == auth.resp.token
        IN  /\ auth.resp.status \in {200, 401}
            /\ auth.resp.status = 200 =>
                  /\ t.signed /\ auth.resp.fresh
                  /\ t.type = "access"
                  /\ t.sub \in auth.users
                  /\ auth.resp.user = t.sub
            /\ (t = NoToken \/ t.type = "refresh" \/ t.sub \notin auth.users) =>
                  auth.resp.status = 401

\* A signed, unexpired refresh token of an existing user in the access
\* cookie is answered 401.
C24_Witness ==
    /\ auth.resp.op = "me"
    /\ auth.resp.status = 401
    /\ auth.resp.token.type = "refresh"
    /\ auth.resp.token.signed /\ auth.resp.fresh
    /\ auth.resp.token.sub \in auth.users

\* ================================================= destroy_sandbox, order

\* The suspended destroy_sandbox calls on sandbox s.
Destroying(s) == {k \in Suspended : k.sid = s /\ k.pc \in {"destroy_rm", "destroy_volume"}}

\* C25: destroy_sandbox removes the registry entry last.  While its
\* `docker rm -f` or `docker volume rm` is in flight the entry is registered
\* and get_sandbox and list_sandboxes return it; an entry leaves the registry
\* only in the step in which a destroy_sandbox returns True, after rm -f
\* succeeded as its only command (remove_volume false) or after the volume
\* removal as its second; a volume removal is in flight only for a call with
\* remove_volume; a failed rm -f returns False after that one command with
\* the registry unchanged.
C25_EntryRemovedLast ==
    [][/\ \A s \in Ids :
             Destroying(s)' # {} =>
                /\ sandboxes'[s] # Absent
                /\ (last'.op = "get" /\ last'.sid = s) =>
                      (last'.ret = "info" /\ last'.info = sandboxes'[s])
                /\ last'.op = "list" => last'.lst[s] = sandboxes'[s]
       /\ \A k \in Suspended' : k.pc = "destroy_volume" => (k.remove_volume /\ k.ncmd = 2)
       /\ \A s \in Ids :
             (sandboxes[s] # Absent /\ sandboxes'[s] = Absent) =>
                \E k \in Destroying(s) :
                   /\ inflight' = inflight (-) SetToBag({k})
                   /\ last'.op = "destroy" /\ last'.sid = s /\ last'.ret = "True"
                   /\ \/ k.pc = "destroy_rm" /\ ~k.remove_volume /\ last'.ncmd = 1
                      \/ k.pc = "destroy_volume" /\ k.remove_volume /\ last'.ncmd = 2
       /\ (last'.op = "destroy" /\ last'.rt = "rm_failed") =>
             /\ last'.ret = "False"
             /\ last'.ncmd = 1
             /\ sandboxes' = sandboxes]_vars

\* get_sandbox returns the entry while the volume removal of its destroy is
\* in flight.
C25_Witness ==
    /\ last.op = "get"
    /\ last.ret = "info"
    /\ \E k \in Destroying(last.sid) : k.pc = "destroy_volume"

\* C26 (as claimed): every sandbox that cleanup_stopped_sandboxes destroys
\* has status stopped at the moment its destroy step runs: the
\* destroy_sandbox that the cleanup awaits found the entry stopped when it
\* looked it up under the lock and issued `docker rm -f`.
C26_DestroyedWhileStopped ==
    cleaner.pc = "in_destroy" =>
       \A k \in Suspended :
          k.pc \in {"destroy_rm", "destroy_volume"} => k.pre = "stopped"

\* ============================================ stop / start, docker fails

\* A docker command of operation pc on sandbox s was issued in this step.
Issues(pc, s) ==
    \E k \in Suspended' :
       /\ k.pc = pc /\ k.sid = s /\ k.ncmd = 1
       /\ inflight' = inflight (+) SetToBag({k})

\* C27: when `docker stop` or `docker start` fails on a registered sandbox,
\* stop_sandbox or start_sandbox returns False (500 from the router) and
\* raises nothing, the registry is as it was before the call returned, and
\* the same operation called again on that sandbox issues its docker command
\* again.
C27_FailureLeavesRegistry ==
    [][/\ (last'.op \in {"stop", "start"} /\ last'.rt = "failed") =>
             /\ last'.ret = "False"
             /\ HttpStatus(last') = 500
             /\ sandboxes'[last'.sid] # Absent
             /\ sandboxes' = sandboxes
             /\ sandboxes'[last'.sid].status = last'.pre
       /\ (last.op = "stop" /\ last.rt = "failed" /\ StopSandbox(last.sid)) =>
             Issues("stop_wait", last.sid)
       /\ (last.op = "start" /\ last.rt = "failed" /\ StartSandbox(last.sid)) =>
             Issues("start_wait", last.sid)]_vars

\* stop_sandbox on a running sandbox returned False because `docker stop`
\* failed, and the sandbox is still running.
C27_Witness ==
    /\ last.op = "stop" /\ last.rt = "failed" /\ last.ret = "False"
    /\ last.pre = "running"
    /\ sandboxes[last.sid].status = "running"
    /\ sandboxes[last.sid].container_id \in ContainerIds

\* ================================================ readers and the lock

\* A record as create_sandbox leaves it when it says running: the
\* container_id is there.
WholeRecord(info) == info.status = "running" => info.container_id # EmptyContainerId

\* C28 (as claimed): get_sandbox and list_sandboxes never take the lock: a
\* call of either returns in one step, whether or not a mutating operation
\* holds the lock and is suspended in docker, and leaves lock and suspended
\* calls as they are; every record they return is the registry's record and
\* is completely written: one that says running carries its container_id.
C28_ReadersSeeWholeRecords ==
    [][/\ \A s \in Ids : GetSandbox(s) =>
             /\ lock' = lock /\ inflight' = inflight
             /\ last'.op = "get" /\ last'.info = sandboxes[s]
             /\ WholeRecord(last'.info)
       /\ ListSandboxes =>
             /\ lock' = lock /\ inflight' = inflight
             /\ last'.op = "list" /\ last'.lst = sandboxes
             /\ \A s \in Ids : WholeRecord(last'.lst[s])]_vars

\* The suspended stop_sandbox and destroy_sandbox calls on sandbox s: they
\* hold the lock and await docker.
TakingOutOfService(s) ==
    {k \in Suspended : k.sid = s /\ k.pc \in {"stop_wait", "destroy_rm", "destroy_volume"}}

\* C29 (as claimed): execute_command dispatches to docker only for a sandbox
\* whose container is in service: called on sandbox s while a stop_sandbox or
\* destroy_sandbox on s holds the lock and awaits docker, it issues no
\* `docker exec`.
C29_NoExecWhileGoingDown ==
    [][\A s \in Ids :
          (TakingOutOfService(s) # {} /\ ExecuteCommand(s))
             => (inflight' = inflight /\ last'.op = "execute" /\ last'.ncmd = 0)]_vars

\* No signal has been sent yet, to a descendant or to the root.
NothingSignaled ==
    /\ kill.term = {} /\ kill.killed = {}
    /\ kill.root_term = "none" /\ kill.root_kill = "none"

\* C30: kill_process_tree takes the snapshot of descendants once, before any
\* signal: the snapshot changes only in the enumeration step, which is never
\* returned to and before which nothing was signaled.  The graceful loop
\* (terminate(), errors of children gone or inaccessible ignored) goes
\* through the snapshot one child at a time while no kill has been sent, and
\* the grace wait and the forceful kills come only after it has been through
\* every child; a forceful kill goes only to a child of the snapshot that the
\* grace wait reported still alive; on this path the root gets its first
\* signal, the graceful one, only when every still-alive child has been
\* visited, and its forceful kill only after that.
C30_SnapshotOnceSignalsOrdered ==
    [][/\ kill.pc # "enumerate" => kill'.pc # "enumerate"
       /\ (kill'.n # kill.n \/ kill'.result.children_found # kill.result.children_found)
             => (kill.pc = "enumerate" /\ NothingSignaled)
       /\ kill.pc = "enumerate" => NothingSignaled
       /\ kill'.term # kill.term =>
             /\ kill.pc = "terminate_children"
             /\ kill'.term = kill.term \cup {kill.j + 1}
             /\ kill.j + 1 \in 1..kill.n
             /\ kill.killed = {} /\ kill.root_term = "none"
       /\ (kill'.pc = "kill_children" /\ kill.pc # "kill_children") =>
             /\ kill.pc = "terminate_children"
             /\ kill.j = kill.n
             /\ kill.term \subseteq 1..kill.n
             /\ kill.killed = {}
             /\ kill'.gone \subseteq 1..kill.n
       /\ (kill.pc = "kill_children" /\ kill'.pc = "kill_children") =>
             /\ kill'.j \in StillAlive
             /\ kill'.j > kill.j
             /\ kill'.killed \in {kill.killed, kill.killed \cup {kill'.j}}
             /\ kill'.gone = kill.gone
       /\ kill'.killed # kill.killed => kill.pc = "kill_children"
       /\ (kill'.root_term # kill.root_term /\ kill'.path = "normal") =>
             /\ kill.pc = "kill_children"
             /\ Unvisited = {}
             /\ kill.root_kill = "none"
       /\ (kill'.root_kill # kill.root_kill /\ kill'.path = "normal") =>
             (kill.pc = "wait_parent" /\ kill.root_term = "sent")]_vars

\* Two descendants got the graceful signal, one exited in the grace period,
\* the other has been force-killed, and the root has not been signaled yet.
C30_Witness ==
    /\ kill.pc = "kill_children"
    /\ kill.n = 2
    /\ kill.term = {1, 2}
    /\ kill.gone = {1}
    /\ kill.killed = {2}
    /\ kill.root_term = "none"

\* C31: a descendant that is gone or inaccessible when it is signaled does
\* not abort kill_process_tree.  The graceful loop and the kill loop go on to
\* the next child whether or not the signal was delivered; the grace wait
\* starts only when the graceful loop has been through every child and the
\* root is signaled only when the kill loop has been through every child
\* still alive; the call raises only when a signal to the root raises; and
\* children_killed counts exactly the children whose kill was delivered.
C31_GoneChildDoesNotAbort ==
    [][/\ (kill.pc = "terminate_children" /\ kill'.pc # "terminate_children") =>
             (kill'.pc = "kill_children" /\ kill.j = kill.n)
       /\ (kill.pc = "terminate_children" /\ kill'.pc = "terminate_children") =>
             kill'.j = kill.j + 1
       /\ (kill.pc = "kill_children" /\ kill'.pc # "kill_children") =>
             /\ Unvisited = {}
             /\ kill'.root_term # "none"
             /\ kill'.pc = "raised" <=> kill'.root_term = "raised"
       /\ kill'.pc = "raised" =>
             (kill'.root_term = "raised" \/ kill'.root_kill = "raised")
       /\ kill'.path = "normal" =>
             /\ kill'.result.children_killed = Cardinality(kill'.killed)
             /\ kill'.killed \subseteq (1..kill'.n) \ kill'.gone]_vars

\* Of two descendants the first was gone at the graceful signal, the second
\* got it, stayed alive and was force-killed, and the root was signaled.
C31_Witness ==
    /\ kill.pc = "done"
    /\ kill.n = 2
    /\ kill.term = {2}
    /\ kill.gone = {1}
    /\ kill.killed = {2}
    /\ kill.result.children_killed = 1
    /\ kill.root_term = "sent"

C33_KillResultCounts ==
    kill.pc = "done" =>
       /\ kill.result.children_terminated + kill.result.children_killed
             <= kill.result.children_found
       /\ kill.killed = StillAlive =>
             kill.result.children_terminated + kill.result.children_killed
                = kill.result.children_found
       /\ kill.result.children_killed > 0 => kill.result.status = "partial"
       /\ kill.result.status = "failure" =>
             (kill.result.children_found = 0 /\ ~kill.result.parent_forcekilled)

\* One of two descendants exited in the grace period, the other was
\* force-killed, the root exited gracefully: 1 + 1 = 2, status partial.
C33_Witness ==
    /\ kill.pc = "done"
    /\ kill.result.children_found = 2
    /\ kill.result.children_terminated = 1
    /\ kill.result.children_killed = 1
    /\ kill.root_kill = "none"
    /\ kill.result.status = "partial"

\* ================================================== waiting for the lock
\* asyncio.Lock: acquire() returns at once when the lock is free and no call
\* waits; otherwise the call joins _waiters and suspends.  release() frees
\* the lock and wakes the first waiter, which takes the lock when the event
\* loop runs it; a call made in between finds _waiters non-empty and joins
\* the queue.

\* the most callers that wait for the lock at once
MaxWaiters == 1

\* A call suspended in `async with self._lock`: what it will do, and whether
\* it is the destroy_sandbox awaited by cleanup_stopped_sandboxes.  Waiting
\* calls are told apart by their arguments.
Waiter(op, s, rv, who) == [op |-> op, sid |-> s, remove_volume |-> rv, who |-> who]

\* The calls other than the cleanup's: they are all made for one sandbox
\* id, which is the id their create_sandbox draws; the cleanup goes through
\* every id.
CallerIds == {1}

\* destroy_sandbox is called with the default remove_volume=True.
Callers ==
    {Waiter(op, s, op = "destroy", "caller") :
        op \in {"create", "stop", "start", "destroy"}, s \in CallerIds}

CleanupWaiter(s) == Waiter("destroy", s, TRUE, "cleanup")

Waiting == {waiters[i] : i \in 1..Len(waiters)}

\* acquire() returns without suspending
AcquireAtOnce == LockFree /\ waiters = NoWaiters

\* the body of the operation a call is for, from `async with self._lock` on
Body(e) ==
    CASE e.op = "create" -> CreateSandbox(e.sid)
      [] e.op = "stop" -> StopSandbox(e.sid)
      [] e.op = "start" -> StartSandbox(e.sid)
      [] e.op = "destroy" -> DestroySandbox(e.sid, e.remove_volume)

\* A call of create/stop/start/destroy_sandbox that gets the lock at once.
CallAtOnce(e) ==
    /\ AcquireAtOnce
    /\ Body(e)
    /\ UNCHANGED <<waiters, cleaner>>

\* A call that finds the lock taken, or calls waiting: it joins the queue.
CallWaits(e) ==
    /\ ~AcquireAtOnce
    /\ e \notin Waiting
    /\ Cardinality(Waiting \cap Callers) < MaxWaiters
    /\ waiters' = Append(waiters, e)
    /\ last' = NoCall
    /\ UNCHANGED <<sandboxes, lock, inflight, everRegistered, cleaner>>

\* The destroy_sandbox of the cleanup's loop gets the lock at once.
CleanupDestroyAtOnce ==
    /\ AcquireAtOnce
    /\ CleanupDestroyNext
    /\ UNCHANGED waiters

\* The destroy_sandbox of the cleanup's loop has to wait for the lock.
CleanupDestroyWaits ==
    /\ ~AcquireAtOnce
    /\ cleaner.pc = "loop"
    /\ cleaner.i < Len(cleaner.to_remove)
    /\ waiters' = Append(waiters, CleanupWaiter(cleaner.to_remove[cleaner.i + 1]))
    /\ cleaner' = [cleaner EXCEPT !.pc = "queued"]
    /\ last' = NoCall
    /\ UNCHANGED <<sandboxes, lock, inflight, everRegistered>>

\* The first waiter, woken by release(), runs: it takes the lock and enters
\* the body of its operation.
WakeFirst ==
    /\ LockFree
    /\ waiters # NoWaiters
    /\ Body(Head(waiters))
    /\ waiters' = Tail(waiters)
    /\ cleaner' = IF Head(waiters).who = "cleanup"
                  THEN IF last'.op = "destroy"
                       THEN [cleaner EXCEPT !.i = @ + 1, !.pc = "loop"]
                       ELSE [cleaner EXCEPT !.i = @ + 1, !.pc = "in_destroy"]
                  ELSE cleaner

\* The docker command a suspended call awaits completes: the call goes on to
\* its next suspension point or returns.
CommandCompletes ==
    \E k \in Suspended :
       \/ CreateVolumeFailed(k) /\ UNCHANGED cleaner
       \/ CreateVolumeDone(k) /\ UNCHANGED cleaner
       \/ \E c \in ContainerIds : CreateRunDone(k, c) /\ UNCHANGED cleaner
       \/ CreateRunFailed(k) /\ UNCHANGED cleaner
       \/ StopDone(k) /\ UNCHANGED cleaner
       \/ StopFailed(k) /\ UNCHANGED cleaner
       \/ StartDone(k) /\ UNCHANGED cleaner
       \/ StartFailed(k) /\ UNCHANGED cleaner
       \/ DestroyRmFailed(k) /\ CleanerResumes
       \/ DestroyRmDone(k) /\ CleanerResumes
       \/ \E removed \in BOOLEAN : DestroyVolumeDone(k, removed) /\ CleanerResumes

\* A step of the manager, of its callers or of the cleanup.
LiveOnly == UNCHANGED <<age, held, kill, auth, agent>>

\* A manager that holds two stopped sandboxes, one hour old; the cleanup is
\* called for those older than 0 hours.
LiveInit ==
    /\ sandboxes = [s \in Ids |-> SandboxInfo(1, "stopped")]
    /\ age = [s \in Ids |-> 1]
    /\ lock = FALSE
    /\ inflight = EmptyBag
    /\ last = NoCall
    /\ everRegistered = Ids
    /\ cleaner = IdleCleaner
    /\ held = NoHeld
    /\ kill = NoKill
    /\ auth = NoAuth
    /\ waiters = NoWaiters
    /\ agent = NoAgent

LiveNext ==
    \/ \E e \in Callers : CallAtOnce(e) /\ LiveOnly
    \/ \E e \in Callers : CallWaits(e) /\ LiveOnly
    \/ WakeFirst /\ LiveOnly
    \/ CommandCompletes /\ UNCHANGED waiters /\ LiveOnly
    \/ CleanupStoppedSandboxes(0) /\ UNCHANGED waiters /\ LiveOnly
    \/ CleanupDestroyAtOnce /\ LiveOnly
    \/ CleanupDestroyWaits /\ LiveOnly
    \/ CleanupReturn /\ UNCHANGED waiters /\ LiveOnly

\* Every docker command completes, the event loop runs a woken waiter, and
\* the cleanup, once called, goes on whenever it is not suspended.
LiveFairness ==
    /\ WF_vars(CommandCompletes /\ UNCHANGED waiters /\ LiveOnly)
    /\ WF_vars(WakeFirst /\ LiveOnly)
    /\ WF_vars((CleanupDestroyAtOnce \/ CleanupDestroyWaits) /\ LiveOnly)
    /\ WF_vars(CleanupReturn /\ UNCHANGED waiters /\ LiveOnly)

LiveSpec == LiveInit /\ [][LiveNext]_vars /\ LiveFairness

\* C34: the lock is released on every exit of a mutating operation: it is
\* held exactly while a call is suspended inside `async with self._lock`, and
\* it is freed in the step in which that call returns or raises.  With every
\* docker command completing, a held lock is always freed, every call that
\* waits for the lock leaves the queue by acquiring it, and a
\* cleanup_stopped_sandboxes that has been called, whose destroy_sandbox
\* calls take the lock one after the other, returns.
C34_LockAlwaysReleased ==
    /\ [](lock <=> \E k \in Suspended : InCritical(k))
    /\ [][(lock /\ ~lock') =>
             last'.op \in {"create", "stop", "start", "destroy"}]_vars
    /\ lock ~> ~lock
    /\ \A e \in Callers \cup {CleanupWaiter(s) : s \in Ids} :
          (e \in Waiting) ~> (e \notin Waiting)
    /\ (cleaner.pc \in {"loop", "queued", "in_destroy"}) ~> (cleaner.pc = "done")

\* The cleanup's second destroy_sandbox waits for the lock behind a caller
\* while a third call holds it.
C34_Witness ==
    /\ lock
    /\ Len(waiters) = 2
    /\ waiters[1].who = "caller"
    /\ waiters[2].who = "cleanup"
    /\ cleaner.pc = "queued"
    /\ cleaner.i = 1

\* ============================================= start / stop, frame

\* Only the status of record s differs between the registry before and after
\* the step, and it is st after.
OnlyStatusChanged(s, st) ==
    /\ sandboxes' = [sandboxes EXCEPT ![s].status = st]
    /\ {t \in Ids : sandboxes'[t] # Absent} = {t \in Ids : sandboxes[t] # Absent}

\* C35 (as claimed): a start_sandbox or stop_sandbox that returns True
\* changes only the status field of the record it is called for, from
\* stopped to running and from running to stopped (or nothing, when the
\* record already had that status): the registered ids, the container_id of
\* that record and every other record are as before.
C35_StartStopChangeOnlyStatus ==
    [][(last'.op \in {"start", "stop"} /\ last'.ret = "True") =>
          IF last'.rt = "none"
          THEN sandboxes' = sandboxes
          ELSE /\ last'.op = "start" =>
                     /\ OnlyStatusChanged(last'.sid, "running")
                     /\ sandboxes[last'.sid].status = "stopped"
               /\ last'.op = "stop" =>
                     /\ OnlyStatusChanged(last'.sid, "stopped")
                     /\ sandboxes[last'.sid].status = "running"]_vars

\* =========================================== two destroys of one sandbox

\* C36: of two destroy_sandbox calls for the same registered id, one of them
\* possibly the cleanup's, the lock lets one at a time issue `docker rm -f`.
\* When that removal succeeds the call returns True and removes the entry;
\* the other call, which gets the lock when the first has returned, finds
\* the id not registered, returns False without issuing a docker command,
\* leaves the registry as it is and is not counted by the cleanup; neither
\* call raises.
C36_OneDestroyWins ==
    [][/\ \A s \in Ids :
             \A k \in Destroying(s)' :
                CopiesIn(k, inflight') = 1 /\ Destroying(s)' = {k}
       /\ last'.op = "destroy" =>
             /\ last'.ret \in {"True", "False"}
             /\ (last'.pre # "absent" /\ last'.rt # "rm_failed") =>
                   /\ last'.ret = "True"
                   /\ sandboxes[last'.sid] # Absent
                   /\ sandboxes'[last'.sid] = Absent
             /\ last'.pre = "absent" =>
                   /\ last'.ret = "False" /\ last'.ncmd = 0
                   /\ inflight' = inflight /\ sandboxes' = sandboxes
                   /\ cleaner'.count = cleaner.count
       /\ (/\ last.op = "destroy" /\ last.ret = "True"
           /\ \E rv \in BOOLEAN : DestroySandbox(last.sid, rv)) =>
             /\ last'.op = "destroy" /\ last'.sid = last.sid
             /\ last'.ret = "False" /\ last'.pre = "absent" /\ last'.ncmd = 0
             /\ sandboxes' = sandboxes]_vars

\* A caller's destroy_sandbox removed a sandbox the cleanup had selected; the
\* cleanup's destroy_sandbox of it, next to get the lock, returned False and
\* was not counted.
C36_Witness ==
    /\ last.op = "destroy" /\ last.ret = "False" /\ last.pre = "absent"
    /\ last.repeats \in {"running", "stopped"}
    /\ cleaner.pc = "loop"
    /\ cleaner.i >= 1
    /\ cleaner.to_remove[cleaner.i] = last.sid
    /\ cleaner.count = 0

\* ============================================ the volume is not created

\* C37: when `docker volume create` fails, create_sandbox raises RuntimeError
\* having issued that one command and no `docker run`, and the registry is
\* the one the call found: no step changes it from the moment the call holds
\* the lock and awaits the volume until the error is raised, and the raising
\* step itself adds no record, so the drawn id is registered exactly when it
\* was registered before.
C37_VolumeFailureLeavesRegistry ==
    [][/\ (\E k \in Suspended : k.pc = "create_volume") => sandboxes' = sandboxes
       /\ (\E k \in Suspended' \ Suspended : k.pc = "create_volume") =>
             sandboxes' = sandboxes
       /\ (last'.op = "create" /\ last'.rt = "volume_failed") =>
             /\ last'.ret = "RuntimeError"
             /\ last'.ncmd = 1
             /\ \A k \in Suspended' : k.pc # "create_run"
             /\ sandboxes' = sandboxes
             /\ everRegistered' = everRegistered
             /\ ~lock']_vars

\* create_sandbox raised RuntimeError for the volume while another sandbox was
\* registered and the drawn id was not.
C37_Witness ==
    /\ last.op = "create" /\ last.rt = "volume_failed" /\ last.ret = "RuntimeError"
    /\ sandboxes[last.sid] = Absent
    /\ \E s \in Ids : sandboxes[s] # Absent

\* ================================================= run_autonomous_agent
\* src/agent.py.  One call of run_autonomous_agent is followed through its
\* loop.  Nothing else runs beside it, so its sleeps are not steps; a session
\* is one: the call is suspended in run_agent_session until the SDK has
\* answered.

AgentOnly ==
    UNCHANGED <<sandboxes, lock, inflight, last, everRegistered, age, cleaner, held, kill,
                auth, waiters>>

\* The values of the optional arguments.
MaxIterationsValues == {None} \cup {Some(n) : n \in -1 .. MaxIterations}
FeatureIds == {None, Some(0), Some(1)}
AgentTypes == {"initializer", "coding", "testing"}

\* bool(x) of an int | None.
Truthy(x) == x # None /\ x # Some(0)

\* Lines 106-162: the arguments are bound, an agent_type of None (at = None)
\* becomes initializer or coding after has_features, iteration = 0.
RunAutonomousAgent(mi, fid, at, has_features) ==
    /\ agent.pc = "idle"
    /\ agent' = AgentCall("loop", mi, fid,
                          IF at # None THEN CHOOSE t \in at : TRUE
                          ELSE IF has_features THEN "coding" ELSE "initializer")
    /\ AgentOnly

\* Lines 164-209: the top of the loop.  passing_all is what count_passing_tests
\* says (total > 0 and passing == total); it is asked on the first iteration
\* of an agent that is no initializer.  Leave the loop, or open a client and
\* await run_agent_session.
LoopTop(passing_all) ==
    /\ agent.pc = "loop"
    /\ LET it == agent.iteration + 1
           n == IF agent.max_iterations = None THEN 0
                ELSE CHOOSE v \in agent.max_iterations : TRUE
       IN  IF agent.agent_type # "initializer" /\ it = 1 /\ passing_all
           THEN agent' = [agent EXCEPT !.pc = "done", !.iteration = it]
           ELSE IF Truthy(agent.max_iterations) /\ it > n
           THEN agent' = [agent EXCEPT !.pc = "done", !.iteration = it]
           ELSE /\ agent.sessions < MaxSessions
                /\ agent' = [agent EXCEPT !.pc = "session", !.iteration = it,
                                          !.sessions = @ + 1]
    /\ AgentOnly

\* Lines 209-286: the session is over with status st (an exception of the
\* client counts as error); phrase says whether the response holds "all
\* features are passing" or "no more work to do", passing_all what
\* count_passing_tests says on line 267.
SessionEnds(st, phrase, passing_all) ==
    /\ agent.pc = "session"
    /\ LET leave == \/ phrase
                    \/ /\ st = "continue"
                       /\ \/ passing_all
                          \/ agent.feature_id # None
                          \/ agent.agent_type = "testing"
       IN  agent' = [agent EXCEPT !.pc = IF leave THEN "done" ELSE "loop",
                                  !.status = st, !.phrase = phrase,
                                  !.complete = st = "continue" /\ ~phrase /\ passing_all]
    /\ AgentOnly

AgentInit ==
    /\ sandboxes = EmptyRegistry
    /\ lock = FALSE
    /\ inflight = EmptyBag
    /\ last = NoCall
    /\ everRegistered = {}
    /\ age = [s \in Ids |-> 0]
    /\ cleaner = IdleCleaner
    /\ held = NoHeld
    /\ kill = NoKill
    /\ auth = NoAuth
    /\ waiters = NoWaiters
    /\ agent = NoAgent

AgentNext ==
    \/ \E mi \in MaxIterationsValues, fid \in FeatureIds,
          at \in {None} \cup {Some(t) : t \in AgentTypes}, hf \in BOOLEAN :
          RunAutonomousAgent(mi, fid, at, hf)
    \/ \E pa \in BOOLEAN : LoopTop(pa)
    \/ \E st \in {"continue", "error"}, ph \in BOOLEAN, pa \in BOOLEAN :
          SessionEnds(st, ph, pa)

AgentSpec == AgentInit /\ [][AgentNext]_vars

\* C38: a call with max_iterations = n, n an integer, never has more than n
\* sessions behind it (none when n is negative).
C38_AtMostMaxIterationsSessions ==
    \A n \in -1 .. MaxIterations :
        agent.max_iterations = Some(n) =>
            agent.sessions <= (IF n < 0 THEN 0 ELSE n)

\* C39: a call in single-feature mode, or of a testing agent, never has more
\* than one session behind it.
C39_OneSessionOnly ==
    (agent.feature_id # None \/ agent.agent_type = "testing") => agent.sessions <= 1
====
